---- MODULE Spec2Model ----
(***************************************************************************)
(* Model of the authoritative snake server (src/src/server/server.rs) and  *)
(* the movement primitive it shares with clients (src/src/game_core.rs).   *)
(*                                                                         *)
(* The world (ServerState) is one record-valued variable, mutated only by  *)
(* the main loop; reader threads communicate through the mpsc channel      *)
(* `queue`.  One action per reader-loop iteration and per main-loop        *)
(* iteration.                                                              *)
(*                                                                         *)
(* Spec is the whole server: readers that read, drop and end, ticks whose  *)
(* writes may fail, idle iterations.  SpecInput follows the input path on  *)
(* connections that stay up, SpecGame the game itself, tick after tick,    *)
(* SpecOpening its first steps, SpecReader the reader threads, SpecClock   *)
(* the deadline of the steps, SpecLive the end of the loop under fairness  *)
(* and SpecHead the movement primitive on every cell of the grid.          *)
(* `last`, `seen` and `lines` are history variables: they record what the  *)
(* latest loop iteration started from and what the readers have read, and  *)
(* are read by the properties only.                                        *)
(***************************************************************************)
EXTENDS Integers, Sequences, FiniteSets, TLC

\* ---------------------------------------------------------------- constants
GRID_WIDTH == 60
GRID_HEIGHT == 30
MOVE_INTERVAL_MS == 150
\* Duration::from_millis(MOVE_INTERVAL_MS), in milliseconds
tick_duration == MOVE_INTERVAL_MS

\* ------------------------------------------------------------------- bounds
\* the whole server: simulation steps, lines read by the readers, messages
\* waiting in the channel
MaxTick == 2
MaxFrames == 1
MaxQueue == 1
\* the input path on healthy connections: lines read by the readers
InputFrames == 2
\* the game on healthy connections: simulation steps and Input lines read
GameTicks == 6
GameInputs == 4
\* the opening of that game: simulation steps and Input lines read
OpeningTicks == 4
OpeningInputs == 2
\* the readers on their own: lines read
ReaderFrames == 3
\* the scheduling of the steps: simulation steps
ClockTicks == 3
\* the life of the server: simulation steps
LiveTicks == 4
\* outcomes of the random generator explored at each draw
RngCount == 2

\* ------------------------------------------------------------------- values
\* Option<Direction>::None
None == "None"
\* Option<T> of the other types: None is the empty set, Some(v) the singleton
NoneOpt == {}
Some(v) == {v}
Direction == {"Up", "Down", "Left", "Right"}
Slots == {1, 2}

Pos(x, y) == [x |-> x, y |-> y]

\* ClientMsg as decoded by serde; "Garbage" stands for a line that does not
\* decode, "Blank" for a line that is empty after trim_end
\* display names a Join is explored with
Names == {"a", "b"}
JoinMsg(n) == [kind |-> "Join", name |-> n]
InputMsg(d) == [kind |-> "Input", dir |-> d]
ClientMsg == {JoinMsg(n) : n \in Names} \cup {InputMsg(d) : d \in Direction}
Frames == ClientMsg \cup {[kind |-> "Garbage"], [kind |-> "Blank"]}
\* what ends a reader: read_line returning Ok(0) or Err
Eof == [kind |-> "Eof"]

\* --------------------------------------------------------------- game_core
\* step_head stopping at the edges instead of wrapping
step_head_clamped(head, d) ==
    LET moved == CASE d = "Up" -> [head EXCEPT !.y = @ - 1]
                   [] d = "Down" -> [head EXCEPT !.y = @ + 1]
                   [] d = "Left" -> [head EXCEPT !.x = @ - 1]
                   [] d = "Right" -> [head EXCEPT !.x = @ + 1]
        wx == IF moved.x < 0 THEN 0
              ELSE IF moved.x >= GRID_WIDTH THEN GRID_WIDTH - 1 ELSE moved.x
        wy == IF moved.y < 0 THEN 0
              ELSE IF moved.y >= GRID_HEIGHT THEN GRID_HEIGHT - 1 ELSE moved.y
    IN  Pos(wx, wy)

step_head(head, d) ==
    LET moved == CASE d = "Up" -> [head EXCEPT !.y = @ - 1]
                   [] d = "Down" -> [head EXCEPT !.y = @ + 1]
                   [] d = "Left" -> [head EXCEPT !.x = @ - 1]
                   [] d = "Right" -> [head EXCEPT !.x = @ + 1]
        wx == IF moved.x < 0 THEN GRID_WIDTH - 1
              ELSE IF moved.x >= GRID_WIDTH THEN 0 ELSE moved.x
        wy == IF moved.y < 0 THEN GRID_HEIGHT - 1
              ELSE IF moved.y >= GRID_HEIGHT THEN 0 ELSE moved.y
    IN  Pos(wx, wy)

\* ------------------------------------------------------------- ServerState
\* Vec::contains
contains(v, pos) == \E i \in 1..Len(v) : v[i] = pos

\* Vec::insert(0, h)
insert0(v, h) == <<h>> \o v

\* Vec::pop (the returned element is discarded by every caller)
pop(v) == IF Len(v) = 0 THEN v ELSE SubSeq(v, 1, Len(v) - 1)

contains_any(s, pos) == contains(s.p1.snake, pos) \/ contains(s.p2.snake, pos)

\* the cells of the grid the random generator is explored on, nearest to the
\* grid centre first
RngOrder ==
    LET cx == GRID_WIDTH \div 2
        cy == GRID_HEIGHT \div 2
    IN  <<Pos(cx, cy), Pos(cx - 1, cy), Pos(cx, cy - 1), Pos(cx + 1, cy), Pos(cx, cy + 1),
          Pos(cx - 1, cy - 1), Pos(cx + 1, cy + 1), Pos(cx + 1, cy - 1), Pos(cx - 1, cy + 1),
          Pos(cx - 2, cy), Pos(cx + 2, cy), Pos(cx, cy - 2), Pos(cx, cy + 2)>>

\* the outcomes of one pair of rng.gen_range calls that are explored
RngDraws == {RngOrder[i] : i \in 1..RngCount}

\* the cells the retry loop of respawn_food can end on that are explored: the
\* first RngCount cells of RngOrder that no snake occupies
FreeDraws(s) ==
    LET free == {i \in 1..Len(RngOrder) : ~contains_any(s, RngOrder[i])}
    IN  {RngOrder[i] : i \in {j \in free : Cardinality({m \in free : m <= j}) <= RngCount}}

\* respawn_food without the occupancy test
respawn_food_anywhere(s) == {[s EXCEPT !.food = pos] : pos \in RngDraws}

\* the states respawn_food can leave behind, one per outcome of the generator
respawn_food(s) == {[s EXCEPT !.food = pos] : pos \in FreeDraws(s)}

\* start1 on the centre cell
start1_centre == Pos(GRID_WIDTH \div 2, GRID_HEIGHT \div 2)

start1 == Pos(GRID_WIDTH \div 2 - 3, GRID_HEIGHT \div 2)
start2 == Pos(GRID_WIDTH \div 2 + 3, GRID_HEIGHT \div 2)

\* ServerState::new
new ==
    UNION {respawn_food(
        [tick |-> 0,
         p1 |-> [snake |-> <<start1>>, dir |-> "Right", latest_input |-> None],
         p2 |-> [snake |-> <<start2>>, dir |-> "Left", latest_input |-> None],
         food |-> f,
         score1 |-> 0,
         score2 |-> 0,
         game_over |-> FALSE,
         winner |-> NoneOpt]) : f \in RngDraws}

opposite(d) ==
    CASE d = "Up" -> "Down"
      [] d = "Down" -> "Up"
      [] d = "Left" -> "Right"
      [] d = "Right" -> "Left"

\* apply_input without the 180-degree test
apply_input_any(p) ==
    IF p.latest_input = None THEN p
    ELSE [p EXCEPT !.latest_input = None, !.dir = p.latest_input]

\* one arm of apply_inputs: Option::take followed by the 180-degree test
apply_input(p) ==
    IF p.latest_input = None THEN p
    ELSE [p EXCEPT !.latest_input = None,
                   !.dir = IF p.latest_input # opposite(p.dir)
                           THEN p.latest_input ELSE @]

apply_inputs(s) == [s EXCEPT !.p1 = apply_input(s.p1), !.p2 = apply_input(s.p2)]

\* candidate heads of a state whose inputs have been applied
h1_of(s) == step_head(s.p1.snake[1], s.p1.dir)
h2_of(s) == step_head(s.p2.snake[1], s.p2.dir)

\* p1_collides with the tail cell, which the move would vacate, left out
p1_collides_skip_tail(s, h1) == contains(pop(s.p1.snake), h1) \/ contains(s.p2.snake, h1)

p1_collides(s, h1) == contains(s.p1.snake, h1) \/ contains(s.p2.snake, h1)
p2_collides(s, h2) == contains(s.p2.snake, h2) \/ contains(s.p1.snake, h2)

\* step_move without the pops of a move in which nobody eats
step_move_keep_tail(s, h1, h2) ==
    LET p1_eats == h1 = s.food
        p2_eats == h2 = s.food
        ins == [s EXCEPT !.p1.snake = insert0(@, h1), !.p2.snake = insert0(@, h2)]
    IN  CASE p1_eats /\ ~p2_eats ->
               {[t EXCEPT !.p2.snake = pop(@)] :
                   t \in respawn_food([ins EXCEPT !.score1 = @ + 1])}
          [] ~p1_eats /\ p2_eats ->
               {[t EXCEPT !.p1.snake = pop(@)] :
                   t \in respawn_food([ins EXCEPT !.score2 = @ + 1])}
          [] p1_eats /\ p2_eats ->
               respawn_food([ins EXCEPT !.score1 = @ + 1, !.score2 = @ + 1])
          [] OTHER ->
               {ins}

\* step_move giving the food to player 1 alone when both heads reach it
step_move_one_eater(s, h1, h2) ==
    LET p1_eats == h1 = s.food
        p2_eats == h2 = s.food
        ins == [s EXCEPT !.p1.snake = insert0(@, h1), !.p2.snake = insert0(@, h2)]
    IN  CASE p1_eats /\ ~p2_eats ->
               {[t EXCEPT !.p2.snake = pop(@)] :
                   t \in respawn_food([ins EXCEPT !.score1 = @ + 1])}
          [] ~p1_eats /\ p2_eats ->
               {[t EXCEPT !.p1.snake = pop(@)] :
                   t \in respawn_food([ins EXCEPT !.score2 = @ + 1])}
          [] p1_eats /\ p2_eats ->
               {[t EXCEPT !.p2.snake = pop(@)] :
                   t \in respawn_food([ins EXCEPT !.score1 = @ + 1])}
          [] OTHER ->
               {[ins EXCEPT !.p1.snake = pop(@), !.p2.snake = pop(@)]}

\* step_move popping the tail of the snake that eats as well
step_move_all_pop(s, h1, h2) ==
    LET p1_eats == h1 = s.food
        p2_eats == h2 = s.food
        ins == [s EXCEPT !.p1.snake = insert0(@, h1), !.p2.snake = insert0(@, h2)]
    IN  CASE p1_eats /\ ~p2_eats ->
               {[t EXCEPT !.p1.snake = pop(@), !.p2.snake = pop(@)] :
                   t \in respawn_food([ins EXCEPT !.score1 = @ + 1])}
          [] ~p1_eats /\ p2_eats ->
               {[t EXCEPT !.p1.snake = pop(@), !.p2.snake = pop(@)] :
                   t \in respawn_food([ins EXCEPT !.score2 = @ + 1])}
          [] p1_eats /\ p2_eats ->
               respawn_food([ins EXCEPT !.score1 = @ + 1, !.score2 = @ + 1])
          [] OTHER ->
               {[ins EXCEPT !.p1.snake = pop(@), !.p2.snake = pop(@)]}

\* step_move leaving the food where it was eaten
step_move_stale_food(s, h1, h2) ==
    LET p1_eats == h1 = s.food
        p2_eats == h2 = s.food
        ins == [s EXCEPT !.p1.snake = insert0(@, h1), !.p2.snake = insert0(@, h2)]
    IN  CASE p1_eats /\ ~p2_eats ->
               {[ins EXCEPT !.score1 = @ + 1, !.p2.snake = pop(@)]}
          [] ~p1_eats /\ p2_eats ->
               {[ins EXCEPT !.score2 = @ + 1, !.p1.snake = pop(@)]}
          [] p1_eats /\ p2_eats ->
               {[ins EXCEPT !.score1 = @ + 1, !.score2 = @ + 1]}
          [] OTHER ->
               {[ins EXCEPT !.p1.snake = pop(@), !.p2.snake = pop(@)]}

\* step_move giving two points for a food
step_move_two_points(s, h1, h2) ==
    LET p1_eats == h1 = s.food
        p2_eats == h2 = s.food
        ins == [s EXCEPT !.p1.snake = insert0(@, h1), !.p2.snake = insert0(@, h2)]
    IN  CASE p1_eats /\ ~p2_eats ->
               {[t EXCEPT !.p2.snake = pop(@)] :
                   t \in respawn_food([ins EXCEPT !.score1 = @ + 2])}
          [] ~p1_eats /\ p2_eats ->
               {[t EXCEPT !.p1.snake = pop(@)] :
                   t \in respawn_food([ins EXCEPT !.score2 = @ + 2])}
          [] p1_eats /\ p2_eats ->
               respawn_food([ins EXCEPT !.score1 = @ + 2, !.score2 = @ + 2])
          [] OTHER ->
               {[ins EXCEPT !.p1.snake = pop(@), !.p2.snake = pop(@)]}

\* the part of step after the collision tests: food and bodies
step_move(s, h1, h2) ==
    LET p1_eats == h1 = s.food
        p2_eats == h2 = s.food
        ins == [s EXCEPT !.p1.snake = insert0(@, h1), !.p2.snake = insert0(@, h2)]
    IN  CASE p1_eats /\ ~p2_eats ->
               {[t EXCEPT !.p2.snake = pop(@)] :
                   t \in respawn_food([ins EXCEPT !.score1 = @ + 1])}
          [] ~p1_eats /\ p2_eats ->
               {[t EXCEPT !.p1.snake = pop(@)] :
                   t \in respawn_food([ins EXCEPT !.score2 = @ + 1])}
          [] p1_eats /\ p2_eats ->
               respawn_food([ins EXCEPT !.score1 = @ + 1, !.score2 = @ + 1])
          [] OTHER ->
               {[ins EXCEPT !.p1.snake = pop(@), !.p2.snake = pop(@)]}

\* step without the test for both players colliding
step_no_draw(s) ==
    IF s.game_over THEN {s}
    ELSE LET a == apply_inputs([s EXCEPT !.tick = @ + 1])
             h1 == h1_of(a)
             h2 == h2_of(a)
         IN  IF p1_collides(a, h1)
             THEN {[a EXCEPT !.game_over = TRUE, !.winner = Some(2)]}
             ELSE IF p2_collides(a, h2)
             THEN {[a EXCEPT !.game_over = TRUE, !.winner = Some(1)]}
             ELSE step_move(a, h1, h2)

\* step naming the player that collided as the winner
step_swapped(s) ==
    IF s.game_over THEN {s}
    ELSE LET a == apply_inputs([s EXCEPT !.tick = @ + 1])
             h1 == h1_of(a)
             h2 == h2_of(a)
         IN  IF p1_collides(a, h1) /\ p2_collides(a, h2)
             THEN {[a EXCEPT !.game_over = TRUE, !.winner = NoneOpt]}
             ELSE IF p1_collides(a, h1)
             THEN {[a EXCEPT !.game_over = TRUE, !.winner = Some(1)]}
             ELSE IF p2_collides(a, h2)
             THEN {[a EXCEPT !.game_over = TRUE, !.winner = Some(2)]}
             ELSE step_move(a, h1, h2)

\* step without the early return on game_over
step_unguarded(s) ==
    LET a == apply_inputs([s EXCEPT !.tick = @ + 1])
        h1 == h1_of(a)
        h2 == h2_of(a)
    IN  IF p1_collides(a, h1) /\ p2_collides(a, h2)
        THEN {[a EXCEPT !.game_over = TRUE, !.winner = NoneOpt]}
        ELSE IF p1_collides(a, h1)
        THEN {[a EXCEPT !.game_over = TRUE, !.winner = Some(2)]}
        ELSE IF p2_collides(a, h2)
        THEN {[a EXCEPT !.game_over = TRUE, !.winner = Some(1)]}
        ELSE step_move(a, h1, h2)

\* step counting the tick only once the collision tests have passed
step_late_tick(s) ==
    IF s.game_over THEN {s}
    ELSE LET a == apply_inputs(s)
             h1 == h1_of(a)
             h2 == h2_of(a)
         IN  IF p1_collides(a, h1) /\ p2_collides(a, h2)
             THEN {[a EXCEPT !.game_over = TRUE, !.winner = NoneOpt]}
             ELSE IF p1_collides(a, h1)
             THEN {[a EXCEPT !.game_over = TRUE, !.winner = Some(2)]}
             ELSE IF p2_collides(a, h2)
             THEN {[a EXCEPT !.game_over = TRUE, !.winner = Some(1)]}
             ELSE step_move([a EXCEPT !.tick = @ + 1], h1, h2)

\* step moving the surviving snake on the step that ends the game
step_survivor_moves(s) ==
    IF s.game_over THEN {s}
    ELSE LET a == apply_inputs([s EXCEPT !.tick = @ + 1])
             h1 == h1_of(a)
             h2 == h2_of(a)
         IN  IF p1_collides(a, h1) /\ p2_collides(a, h2)
             THEN {[a EXCEPT !.game_over = TRUE, !.winner = NoneOpt]}
             ELSE IF p1_collides(a, h1)
             THEN {[a EXCEPT !.game_over = TRUE, !.winner = Some(2),
                             !.p2.snake = pop(insert0(@, h2))]}
             ELSE IF p2_collides(a, h2)
             THEN {[a EXCEPT !.game_over = TRUE, !.winner = Some(1),
                             !.p1.snake = pop(insert0(@, h1))]}
             ELSE step_move(a, h1, h2)

\* ServerState::step: the set of states it can leave behind
step(s) ==
    IF s.game_over THEN {s}
    ELSE LET a == apply_inputs([s EXCEPT !.tick = @ + 1])
             h1 == h1_of(a)
             h2 == h2_of(a)
         IN  IF p1_collides(a, h1) /\ p2_collides(a, h2)
             THEN {[a EXCEPT !.game_over = TRUE, !.winner = NoneOpt]}
             ELSE IF p1_collides(a, h1)
             THEN {[a EXCEPT !.game_over = TRUE, !.winner = Some(2)]}
             ELSE IF p2_collides(a, h2)
             THEN {[a EXCEPT !.game_over = TRUE, !.winner = Some(1)]}
             ELSE step_move(a, h1, h2)

\* ServerState::snapshot
snapshot(s) ==
    [tick |-> s.tick,
     snake1 |-> s.p1.snake,
     snake2 |-> s.p2.snake,
     dir1 |-> s.p1.dir,
     dir2 |-> s.p2.dir,
     food |-> s.food,
     score1 |-> s.score1,
     score2 |-> s.score2,
     game_over |-> s.game_over,
     winner |-> s.winner]

\* -------------------------------------------------------------------- main
\* handle_msg keeping an input that is already buffered
handle_msg_first(s, pid, msg) ==
    IF msg.kind = "Input"
    THEN CASE pid = 1 /\ s.p1.latest_input = None -> [s EXCEPT !.p1.latest_input = msg.dir]
           [] pid = 2 /\ s.p2.latest_input = None -> [s EXCEPT !.p2.latest_input = msg.dir]
           [] OTHER -> s
    ELSE s

\* the body of the `while let Ok(..) = rx_inputs.try_recv()` loop
handle_msg(s, pid, msg) ==
    IF msg.kind = "Input"
    THEN CASE pid = 1 -> [s EXCEPT !.p1.latest_input = msg.dir]
           [] pid = 2 -> [s EXCEPT !.p2.latest_input = msg.dir]
           [] OTHER -> s
    ELSE s

\* the whole drain loop: every queued message, in channel order
RECURSIVE drain(_, _)
drain(s, q) ==
    IF q = <<>> THEN s
    ELSE drain(handle_msg(s, Head(q)[1], Head(q)[2]), Tail(q))

VARIABLES
    state,      \* ServerState owned by main
    queue,      \* mpsc channel of (player_slot, ClientMsg)
    writers,    \* slots whose TcpStream is still in `writers`
    reader,     \* per slot: is the reader thread still in its loop
    out,        \* per slot: the last line written to the stream, if any
    pc,         \* main: "loop" inside the loop, "done" after the break
    frames,     \* lines read so far by the reader threads
    now,        \* main: the latest value of Instant::now(), in milliseconds
    next_tick,  \* main: the deadline of the next step, in milliseconds
    last,       \* history: a summary of the latest loop iteration
    seen,       \* history: the world and channel that iteration started from
    lines       \* history: what the readers have read, as (slot, line) pairs

vars == <<state, queue, writers, reader, out, pc, frames, now, next_tick, last, seen, lines>>
clock == <<now, next_tick>>

Init ==
    /\ state \in new
    /\ queue = <<>>
    /\ writers = Slots
    /\ reader = [c \in Slots |-> TRUE]
    /\ out = [c \in Slots |-> NoneOpt]
    /\ pc = "loop"
    /\ frames = 0
    /\ now = 0
    /\ next_tick = now + tick_duration
    /\ last = [op |-> "none"]
    /\ seen = [s |-> state, q |-> <<>>]
    /\ lines = <<>>

\* ReaderLine leaving the loop on a line that does not decode
ReaderLine_stops(c, f, maxFrames, maxQueue, record) ==
    /\ reader[c]
    /\ frames < maxFrames
    /\ Len(queue) < maxQueue
    /\ frames' = frames + 1
    /\ queue' = IF f \in ClientMsg THEN Append(queue, <<c, f>>) ELSE queue
    /\ reader' = IF f \in ClientMsg THEN reader ELSE [reader EXCEPT ![c] = FALSE]
    /\ lines' = IF record THEN Append(lines, <<c, f>>) ELSE lines
    /\ UNCHANGED <<state, writers, out, pc, now, next_tick, last, seen>>

\* one iteration of the reader loop on a line that was read (Ok(n), n > 0);
\* at most maxFrames lines are read and at most maxQueue messages wait;
\* `record` says whether the history keeps the line
ReaderLine(c, f, maxFrames, maxQueue, record) ==
    /\ reader[c]
    /\ frames < maxFrames
    /\ Len(queue) < maxQueue
    /\ frames' = frames + 1
    /\ queue' = IF f \in ClientMsg THEN Append(queue, <<c, f>>) ELSE queue
    /\ lines' = IF record THEN Append(lines, <<c, f>>) ELSE lines
    /\ UNCHANGED <<state, writers, reader, out, pc, now, next_tick, last, seen>>

\* one iteration of the reader loop that ends it: Ok(0) or Err
ReaderEnd(c, record) ==
    /\ reader[c]
    /\ reader' = [reader EXCEPT ![c] = FALSE]
    /\ lines' = IF record THEN Append(lines, <<c, Eof>>) ELSE lines
    /\ UNCHANGED <<state, queue, writers, out, pc, frames, now, next_tick, last, seen>>

\* retain_mut keeping every slot, the write failed or not
retained_all(ws, failed) == ws

\* retain_mut dropping every slot as soon as one write fails
retained_none_on_failure(ws, failed) == IF ws \cap failed = {} THEN ws ELSE {}

\* writers.retain_mut: the slots that stay, given those whose write failed
retained(ws, failed) == ws \ failed

\* one iteration of the main loop that takes the branch of now >= next_tick,
\* the clock apart; `failures` are the sets of slots whose writeln or flush
\* may return an error; `record` says whether the history keeps what the
\* iteration started from
LoopTick(maxTick, failures, record) ==
    /\ pc = "loop"
    /\ state.tick < maxTick \/ state.game_over
    /\ \E s2 \in step(drain(state, queue)), failed \in failures :
         /\ failed \subseteq writers
         /\ state' = s2
         /\ out' = [c \in Slots |->
                      IF c \in writers \ failed THEN Some(snapshot(s2)) ELSE out[c]]
         /\ writers' = retained(writers, failed)
         /\ last' = [op |-> "tick", tick |-> state.tick, over |-> state.game_over,
                     food |-> state.food, score1 |-> state.score1,
                     score2 |-> state.score2, w |-> writers, failed |-> failed]
    /\ seen' = IF record THEN [s |-> state, q |-> queue] ELSE seen
    /\ queue' = <<>>
    /\ pc' = IF writers' = {} THEN "done" ELSE "loop"
    /\ UNCHANGED <<reader, frames, lines>>

\* one iteration of the main loop that takes the branch of now < next_tick,
\* the clock apart
LoopSleep(record) ==
    /\ pc = "loop"
    /\ state' = drain(state, queue)
    /\ queue' = <<>>
    /\ last' = [op |-> "sleep", tick |-> state.tick, over |-> state.game_over,
                food |-> state.food, score1 |-> state.score1,
                score2 |-> state.score2, w |-> writers, failed |-> {}]
    /\ seen' = IF record THEN [s |-> state, q |-> queue] ELSE seen
    /\ pc' = IF writers = {} THEN "done" ELSE "loop"
    /\ UNCHANGED <<writers, reader, out, frames, lines>>

\* the whole server with the scheduling left open: either branch of the
\* clock test may be taken at any iteration
ServerTick == LoopTick(MaxTick, SUBSET Slots, TRUE) /\ UNCHANGED clock
ServerSleep == LoopSleep(TRUE) /\ UNCHANGED clock

Next ==
    \/ \E c \in Slots, f \in Frames : ReaderLine(c, f, MaxFrames, MaxQueue, FALSE)
    \/ \E c \in Slots : ReaderEnd(c, FALSE)
    \/ ServerTick
    \/ ServerSleep

Spec == Init /\ [][Next]_vars

\* the input path on two connections that stay up: readers, drains and ticks
InputTick == LoopTick(MaxTick, {{}}, TRUE) /\ UNCHANGED clock

NextInput ==
    \/ \E c \in Slots, f \in Frames : ReaderLine(c, f, InputFrames, MaxQueue, FALSE)
    \/ InputTick
    \/ ServerSleep

SpecInput == Init /\ [][NextInput]_vars

\* the game on two connections that stay up: every loop iteration is a tick
\* and at most one Input line arrives between two ticks
GameTick == LoopTick(GameTicks, {{}}, FALSE) /\ UNCHANGED clock

NextGame ==
    \/ \E c \in Slots, d \in Direction : ReaderLine(c, InputMsg(d), GameInputs, 1, FALSE)
    \/ GameTick

SpecGame == Init /\ [][NextGame]_vars

\* the opening of the game: the same loop over its first steps, in which
\* the snakes eat, grow, move on and run into each other
OpeningTick == LoopTick(OpeningTicks, {{}}, FALSE) /\ UNCHANGED clock

NextOpening ==
    \/ \E c \in Slots, d \in Direction : ReaderLine(c, InputMsg(d), OpeningInputs, 1, FALSE)
    \/ OpeningTick

SpecOpening == Init /\ [][NextOpening]_vars

\* the readers on their own: lines of every kind are read, connections end,
\* and the main loop drains the channel between two steps
ReaderKinds ==
    {[kind |-> "Garbage"], [kind |-> "Blank"], JoinMsg("a"), InputMsg("Up"), InputMsg("Left")}

ReaderSleep == LoopSleep(FALSE) /\ UNCHANGED clock

NextReader ==
    \/ \E c \in Slots, f \in ReaderKinds : ReaderLine(c, f, ReaderFrames, ReaderFrames, TRUE)
    \/ \E c \in Slots : ReaderEnd(c, TRUE)
    \/ ReaderSleep

SpecReader == Init /\ [][NextReader]_vars

\* the scheduling of the steps: the main loop with its clock, on two
\* connections that stay up and send nothing, until the game ends
\* the milliseconds between two reads of the clock that are explored
Elapsed == {0, 1, 100, 150, 310}
\* the latest read of the clock that is explored
LastRead == (ClockTicks + 2) * tick_duration

\* the deadline set to one interval after the step that has just run
next_deadline_reset(deadline, t) == t + tick_duration

\* next_tick += tick_duration, in an iteration that read the clock at t
next_deadline(deadline, t) == deadline + tick_duration

ClockTick ==
    /\ \E d \in Elapsed : now' = now + d
    /\ now' <= LastRead
    /\ now' >= next_tick
    /\ ~state.game_over
    /\ next_tick' = next_deadline(next_tick, now')
    /\ LoopTick(ClockTicks, {{}}, FALSE)

ClockSleep ==
    /\ \E d \in Elapsed : now' = now + d
    /\ now' <= LastRead
    /\ now' < next_tick
    /\ UNCHANGED next_tick
    /\ LoopSleep(FALSE)

NextClock == ClockTick \/ ClockSleep

SpecClock == Init /\ [][NextClock]_vars

\* the life of the server: ticks whose writes may fail and idle iterations,
\* on connections that send nothing; the clock keeps running, so that a loop
\* that has not ended cannot idle for ever
LiveTick == LoopTick(LiveTicks, SUBSET Slots, FALSE) /\ UNCHANGED clock
LiveSleep == LoopSleep(FALSE) /\ UNCHANGED clock

NextLive == LiveTick \/ LiveSleep

SpecLive == Init /\ [][NextLive]_vars /\ WF_vars(LiveTick)

\* the movement primitive on its own: a single segment placed on any cell of
\* the grid and moved by step_head, one cell at a time, in any direction
Grid == {Pos(x, y) : x \in 0..(GRID_WIDTH - 1), y \in 0..(GRID_HEIGHT - 1)}

InitHead ==
    /\ state \in {[w EXCEPT !.p1.snake = <<pos>>] : w \in new, pos \in Grid}
    /\ queue = <<>>
    /\ writers = Slots
    /\ reader = [c \in Slots |-> TRUE]
    /\ out = [c \in Slots |-> NoneOpt]
    /\ pc = "loop"
    /\ frames = 0
    /\ now = 0
    /\ next_tick = now + tick_duration
    /\ last = [op |-> "none"]
    /\ seen = [s |-> [state EXCEPT !.p1.snake = <<start1>>], q |-> <<>>]
    /\ lines = <<>>

MoveHead(d) ==
    /\ state' = [state EXCEPT !.p1.snake = <<step_head(@[1], d)>>]
    /\ last' = [op |-> "step_head", head |-> state.p1.snake[1], dir |-> d]
    /\ UNCHANGED <<queue, writers, reader, out, pc, frames, now, next_tick, seen, lines>>

NextHead == \E d \in Direction : MoveHead(d)

SpecHead == InitHead /\ [][NextHead]_vars

\* ------------------------------------------------------------ vocabulary
Cells(v) == {v[i] : i \in 1..Len(v)}
BodyOf(s, k) == IF k = 1 THEN s.p1.snake ELSE s.p2.snake
ScoreOf(s, k) == IF k = 1 THEN s.score1 ELSE s.score2
PlayerOf(s, k) == IF k = 1 THEN s.p1 ELSE s.p2
Opp == [Up |-> "Down", Down |-> "Up", Left |-> "Right", Right |-> "Left"]
\* the facing a buffered input b leaves a player facing d with
Turned(d, b) == IF b = None \/ b = Opp[d] THEN d ELSE b

\* the world as the step of this transition finds it: the channel drained,
\* the inputs still buffered
Drained == drain(state, queue)
\* this transition is a tick of the game that calls step on a running game
RunningStep == GameTick /\ ~Drained.game_over
\* the candidate head of player k in the step of this transition
Cand(k) == step_head(BodyOf(Drained, k)[1],
                     Turned(PlayerOf(Drained, k).dir, PlayerOf(Drained, k).latest_input))
\* that candidate head lies on a pre-step body
Hit(k) == Cand(k) \in Cells(Drained.p1.snake) \cup Cells(Drained.p2.snake)

\* the same, read off a world that a step has just ended: its bodies are the
\* pre-step bodies and its facings the ones the step moved with
JustEnded == last.op = "tick" /\ ~last.over /\ state.game_over
EndCand(k) == step_head(BodyOf(state, k)[1], PlayerOf(state, k).dir)
EndHit(k) == EndCand(k) \in Cells(state.p1.snake) \cup Cells(state.p2.snake)

\* ------------------------------------------------------------------ claims
\* C1: from the initial world with no input ever applied, the step in which
\* the two heads meet head-on at the same cell ends the game in a draw
\* (game_over = true, winner = none).
C1_HeadOnDraw ==
    [][(RunningStep /\ frames = 0 /\ Cand(1) = Cand(2))
          => (state'.game_over /\ state'.winner = NoneOpt)]_vars

\* C2: mutual elimination: a step of a running game in which both candidate
\* heads lie on a pre-step body sets game_over with no winner.
C2_MutualElimination ==
    [][(RunningStep /\ Hit(1) /\ Hit(2))
          => (state'.game_over /\ state'.winner = NoneOpt)]_vars

C2_Witness ==
    JustEnded /\ EndHit(1) /\ EndHit(2) /\ state.winner = NoneOpt

\* C3: single elimination: a step of a running game in which exactly one
\* candidate head lies on a pre-step body sets game_over and names the other
\* player the winner.
C3_SingleElimination ==
    [][RunningStep =>
          /\ (Hit(1) /\ ~Hit(2)) => (state'.game_over /\ state'.winner = Some(2))
          /\ (Hit(2) /\ ~Hit(1)) => (state'.game_over /\ state'.winner = Some(1))]_vars

C3_Witness ==
    JustEnded /\ EndHit(1) /\ ~EndHit(2) /\ state.winner = Some(2)

\* C4: self-collision: a snake of length >= 2 whose candidate head is a cell
\* of its own pre-step body, the tail cell included, is eliminated in that
\* step: the game is over and that player is not the winner.
C4_SelfCollision ==
    [][RunningStep =>
          \A k \in Slots :
              (Len(BodyOf(Drained, k)) >= 2 /\ Cand(k) \in Cells(BodyOf(Drained, k)))
                  => (state'.game_over /\ k \notin state'.winner)]_vars

C4_Witness ==
    /\ JustEnded
    /\ Len(state.p1.snake) >= 2
    /\ EndCand(1) = state.p1.snake[Len(state.p1.snake)]
    /\ 1 \notin state.winner

\* the world as the step of the latest loop iteration found it; seen is what
\* that iteration started from (recorded in Spec and SpecInput)
Pre == drain(seen.s, seen.q)
\* the Input messages of slot k in a channel content
InputsOf(k, q) == SelectSeq(q, LAMBDA m : m[1] = k /\ m[2].kind = "Input")
\* what slot k has buffered once that channel content is drained
Pending(k) ==
    LET ins == InputsOf(k, seen.q)
    IN  IF ins = <<>> THEN PlayerOf(seen.s, k).latest_input ELSE ins[Len(ins)][2].dir

\* C5: turn-reversal rule: a step of a running game leaves the facing
\* unchanged when the buffered input is its exact opposite or when nothing is
\* buffered, and takes any other buffered input as the new facing; the buffer
\* is empty afterwards; no loop iteration flips a facing to its opposite.
C5_TurnReversal ==
    \A k \in Slots :
        /\ (last.op = "tick" /\ ~last.over) =>
              LET b == PlayerOf(Pre, k).latest_input
                  d == PlayerOf(Pre, k).dir
              IN  /\ PlayerOf(state, k).latest_input = None
                  /\ b = None => PlayerOf(state, k).dir = d
                  /\ (b # None /\ b = Opp[d]) => PlayerOf(state, k).dir = d
                  /\ (b # None /\ b # Opp[d]) => PlayerOf(state, k).dir = b
        /\ last.op # "none" => PlayerOf(state, k).dir # Opp[PlayerOf(seen.s, k).dir]

C5_Witness ==
    /\ last.op = "tick" /\ ~last.over
    /\ Pre.p1.latest_input = Opp[Pre.p1.dir]
    /\ state.p1.dir = Pre.p1.dir
    /\ state.p1.latest_input = None

\* C6: food growth: in a step without collision, a snake whose candidate
\* head is the food cell ends the step one segment longer and with one point
\* more, and the food is on a cell of neither body.
C6_FoodGrowth ==
    [][(RunningStep /\ ~Hit(1) /\ ~Hit(2)) =>
          \A k \in Slots :
              Cand(k) = Drained.food =>
                  /\ Len(BodyOf(state', k)) = Len(BodyOf(state, k)) + 1
                  /\ ScoreOf(state', k) = ScoreOf(state, k) + 1
                  /\ state'.food \notin Cells(state'.p1.snake) \cup Cells(state'.p2.snake)]_vars

C6_Witness ==
    /\ last.op = "tick" /\ ~last.over /\ ~state.game_over
    /\ state.p1.snake[1] = last.food
    /\ state.score1 = last.score1 + 1
    /\ Len(state.p1.snake) >= 2
    /\ state.food # last.food

\* C7: last input wins: of the Input messages of one connection drained by a
\* loop iteration only the last one is that player's pending input, it alone
\* decides the facing the next step takes, and the messages of slot k touch
\* the pending input of player k only.
C7_LastInputWins ==
    \A k \in Slots :
        /\ (last.op = "sleep" \/ (last.op = "tick" /\ last.over)) =>
              PlayerOf(state, k).latest_input = Pending(k)
        /\ (last.op = "tick" /\ ~last.over) =>
              PlayerOf(state, k).dir = Turned(PlayerOf(seen.s, k).dir, Pending(k))

C7_Witness ==
    /\ last.op = "tick" /\ ~last.over
    /\ seen.s.p1.latest_input # None
    /\ InputsOf(1, seen.q) # <<>>
    /\ Turned(seen.s.p1.dir, seen.s.p1.latest_input) # Turned(seen.s.p1.dir, Pending(1))
    /\ state.p1.dir = Pending(1)

\* C8: once game_over is true it stays true, and nothing, a later call of
\* step included, changes tick, bodies, facings, scores, food or winner.
C8_Frozen ==
    [][state.game_over =>
          /\ state'.game_over
          /\ state'.tick = state.tick
          /\ state'.p1.snake = state.p1.snake /\ state'.p2.snake = state.p2.snake
          /\ state'.p1.dir = state.p1.dir /\ state'.p2.dir = state.p2.dir
          /\ state'.score1 = state.score1 /\ state'.score2 = state.score2
          /\ state'.food = state.food
          /\ state'.winner = state.winner]_vars

C8_Witness ==
    last.op = "tick" /\ last.over /\ state.game_over

\* C9: the tick counter is 0 before the first step, a step of a running game
\* adds exactly 1 to it, the step that ends the game included, and nothing
\* else changes it.
C9_TickCounts ==
    /\ last.op = "none" => state.tick = 0
    /\ (last.op = "tick" /\ ~last.over) => state.tick = last.tick + 1
    /\ (last.op = "tick" /\ last.over) => state.tick = last.tick
    /\ last.op = "sleep" => state.tick = last.tick

C9_Witness ==
    JustEnded /\ state.tick = last.tick + 1

\* C10: a tick writes the snapshot of the post-step world to every connection
\* of the writer set whose write succeeds and keeps exactly those; a
\* connection whose write fails is removed and the others are unaffected.
C10_Broadcast ==
    last.op = "tick" =>
        /\ writers = last.w \ last.failed
        /\ \A c \in last.w \ last.failed : out[c] = Some(snapshot(state))

C10_Witness ==
    /\ last.op = "tick"
    /\ last.w = Slots /\ last.failed = {1}
    /\ writers = {2}
    /\ out[2] = Some(snapshot(state))
    /\ out[1] # out[2]

\* C12: a freshly created world has tick 0, is not over, has no winner and
\* scores 0, player 1 is a single segment at (27,15) facing Right and player 2
\* a single segment at (33,15) facing Left; after one step with no input the
\* heads are at (28,15) and (32,15), the game is not over and tick is 1.
C12_FreshWorld ==
    /\ last.op = "none" =>
          /\ state.tick = 0 /\ ~state.game_over /\ state.winner = NoneOpt
          /\ state.score1 = 0 /\ state.score2 = 0
          /\ state.p1.snake = <<Pos(27, 15)>> /\ state.p1.dir = "Right"
          /\ state.p2.snake = <<Pos(33, 15)>> /\ state.p2.dir = "Left"
    /\ (last.op = "tick" /\ last.tick = 0 /\ frames = 0) =>
          /\ state.p1.snake[1] = Pos(28, 15)
          /\ state.p2.snake[1] = Pos(32, 15)
          /\ ~state.game_over
          /\ state.tick = 1

C12_Witness ==
    /\ last.op = "tick" /\ last.tick = 0 /\ frames = 0
    /\ state.tick = 1
    /\ state.p1.snake = <<Pos(28, 15)>>
    /\ state.p2.snake = <<Pos(32, 15)>>

\* the unit vector of a direction, y growing downwards
Delta(d) ==
    CASE d = "Up" -> [x |-> 0, y |-> -1]
      [] d = "Down" -> [x |-> 0, y |-> 1]
      [] d = "Left" -> [x |-> -1, y |-> 0]
      [] d = "Right" -> [x |-> 1, y |-> 0]

\* C13: step_head is total and toroidal: for every cell (x,y) of the grid and
\* every direction the result is a cell of the grid and equals
\* ((x+dx+W) mod W, (y+dy+H) mod H) for the unit vector (dx,dy) of the
\* direction; Left from column 0 gives column W-1, Right from column W-1
\* column 0, Up from row 0 row H-1 and Down from row H-1 row 0.
C13_StepHeadTorus ==
    last.op = "step_head" =>
        LET h == last.head
            r == state.p1.snake[1]
            v == Delta(last.dir)
        IN  /\ r \in Grid
            /\ r = Pos((h.x + v.x + GRID_WIDTH) % GRID_WIDTH,
                       (h.y + v.y + GRID_HEIGHT) % GRID_HEIGHT)
            /\ (h.x = 0 /\ last.dir = "Left") => r = Pos(GRID_WIDTH - 1, h.y)
            /\ (h.x = GRID_WIDTH - 1 /\ last.dir = "Right") => r = Pos(0, h.y)
            /\ (h.y = 0 /\ last.dir = "Up") => r = Pos(h.x, GRID_HEIGHT - 1)
            /\ (h.y = GRID_HEIGHT - 1 /\ last.dir = "Down") => r = Pos(h.x, 0)

C13_Witness ==
    /\ last.op = "step_head"
    /\ last.head = Pos(0, GRID_HEIGHT - 1) /\ last.dir = "Down"
    /\ state.p1.snake[1] = Pos(0, 0)

\* C14: in a step without collision, a snake whose candidate head is not the
\* food cell keeps its length and its score: its new body is the candidate
\* head followed by the old body without its last segment; the step adds
\* exactly 1 to tick.
C14_PlainMove ==
    [][(RunningStep /\ ~Hit(1) /\ ~Hit(2)) =>
          /\ state'.tick = state.tick + 1
          /\ \A k \in Slots :
                Cand(k) # Drained.food =>
                    LET old == BodyOf(state, k)
                    IN  /\ BodyOf(state', k) = <<Cand(k)>> \o SubSeq(old, 1, Len(old) - 1)
                        /\ Len(BodyOf(state', k)) = Len(old)
                        /\ ScoreOf(state', k) = ScoreOf(state, k)]_vars

C14_Witness ==
    /\ last.op = "tick" /\ ~last.over /\ ~state.game_over
    /\ state.tick = last.tick + 1
    /\ state.p1.snake[1] # last.food
    /\ state.score1 = last.score1
    /\ Len(state.p1.snake) >= 2

\* C17: the step that ends the game skips what remains of it: both bodies,
\* both scores and the food are as before the step; the snake that survives
\* does not advance.
C17_EndingStep ==
    [][(RunningStep /\ (Hit(1) \/ Hit(2))) =>
          /\ state'.game_over
          /\ state'.p1.snake = state.p1.snake
          /\ state'.p2.snake = state.p2.snake
          /\ state'.score1 = state.score1
          /\ state'.score2 = state.score2
          /\ state'.food = state.food]_vars

C17_Witness ==
    /\ JustEnded /\ EndHit(2) /\ ~EndHit(1)
    /\ state.winner = Some(1)
    /\ Len(state.p1.snake) >= 2
    /\ state.food = last.food
    /\ state.score1 = last.score1 /\ state.score2 = last.score2

\* C18: simultaneous eaters: in a step without collision in which both
\* candidate heads are the food cell, both scores grow by exactly 1, both
\* bodies grow by exactly one segment and the food moves to a cell that
\* neither snake occupies.
C18_BothEat ==
    [][(RunningStep /\ ~Hit(1) /\ ~Hit(2)
            /\ Cand(1) = Drained.food /\ Cand(2) = Drained.food) =>
          /\ state'.score1 = state.score1 + 1
          /\ state'.score2 = state.score2 + 1
          /\ Len(state'.p1.snake) = Len(state.p1.snake) + 1
          /\ Len(state'.p2.snake) = Len(state.p2.snake) + 1
          /\ state'.food # state.food
          /\ state'.food \notin Cells(state'.p1.snake) \cup Cells(state'.p2.snake)]_vars

C18_Witness ==
    /\ last.op = "tick" /\ ~last.over /\ ~state.game_over
    /\ state.p1.snake[1] = last.food /\ state.p2.snake[1] = last.food
    /\ state.score1 = last.score1 + 1 /\ state.score2 = last.score2 + 1
    /\ Len(state.p1.snake) = 2 /\ Len(state.p2.snake) = 2
    /\ state.food # last.food

\* C20: every body is non-empty, head first, before and after every
\* transition of the server; no step shortens a body: a step
\* of a running game without collision puts the candidate head in front and
\* lengthens the body by exactly one when that head is the food cell and
\* leaves its length as it is otherwise; the step that ends the game, a step
\* of a game that is over and everything else leave the body untouched.
C20_BodyLength ==
    [][/\ \A k \in Slots :
             /\ Len(BodyOf(state, k)) >= 1
             /\ Len(BodyOf(state', k)) >= 1
       /\ IF RunningStep /\ ~Hit(1) /\ ~Hit(2)
          THEN \A k \in Slots :
                   /\ BodyOf(state', k)[1] = Cand(k)
                   /\ Len(BodyOf(state', k)) =
                          Len(BodyOf(state, k)) + (IF Cand(k) = Drained.food THEN 1 ELSE 0)
          ELSE \A k \in Slots : BodyOf(state', k) = BodyOf(state, k)]_vars

C20_Witness ==
    /\ last.op = "tick" /\ ~last.over /\ ~state.game_over
    /\ Len(state.p2.snake) = 2
    /\ state.p2.snake[1] = last.food
    /\ state.score2 = last.score2 + 1

\* the lines that decode, in the order they were read
WellFormed(ls) == SelectSeq(ls, LAMBDA l : l[2] \in ClientMsg)
\* the world with nothing buffered
Unbuffered == [state EXCEPT !.p1.latest_input = None, !.p2.latest_input = None]

\* C16: a line that does not decode is dropped without effect: the channel
\* holds the lines that decode, in the order they were read, and nothing
\* else; the world is the one those lines alone lead to; a reader is out of
\* its loop exactly when its own read returned 0 or an error, whatever it and
\* the other reader have read; the main loop runs on.
C16_MalformedDropped ==
    LET sent == WellFormed(lines)
    IN  /\ \E n \in 0..Len(sent) : queue = SubSeq(sent, n + 1, Len(sent))
        /\ drain(state, queue) = drain(Unbuffered, sent)
        /\ \A c \in Slots :
              reader[c] <=> (\A i \in 1..Len(lines) : lines[i] # <<c, Eof>>)
        /\ pc = "loop"

C16_Witness ==
    /\ lines = << <<2, Eof>>, <<1, [kind |-> "Garbage"]>>,
                  <<1, InputMsg("Up")>>, <<1, InputMsg("Left")>> >>
    /\ queue = << <<1, InputMsg("Up")>>, <<1, InputMsg("Left")>> >>
    /\ reader[1] /\ ~reader[2]
    /\ pc = "loop"

\* the Join messages of slot k in a channel content
JoinsOf(k, q) == SelectSeq(q, LAMBDA m : m[1] = k /\ m[2].kind = "Join")
\* the display name a player record holds, and the one a snapshot shows for
\* player k, if any
NameOf(p) == IF "name" \in DOMAIN p THEN {p.name} ELSE {}
ShownName(snap, k) == IF "players" \in DOMAIN snap THEN NameOf(snap.players[k]) ELSE {}

\* C15: once the main loop has drained a Join{name} of slot k, the display
\* name of player k is that name, the last one drained if there are several,
\* and the snapshot of the tick shows it.
C15_JoinName ==
    \A k \in Slots :
        (last.op = "tick" /\ JoinsOf(k, seen.q) # <<>>) =>
            LET js == JoinsOf(k, seen.q)
                n == js[Len(js)][2].name
            IN  /\ NameOf(PlayerOf(state, k)) = {n}
                /\ \A c \in writers : \A snap \in out[c] : ShownName(snap, k) = {n}

\* C19: tick scheduling, with time counted from the read of the clock that
\* sets the first deadline: the deadline is always one interval past the
\* number of steps run, times the interval (each step moves it by exactly
\* one interval, none resets it to now + interval and none is skipped); the
\* k-th step is not run before k intervals have passed; an iteration sleeps
\* only when the clock is before the deadline, so a loop that is behind runs
\* step after step until it has caught up.
C19_TickSchedule ==
    /\ next_tick = (state.tick + 1) * tick_duration
    /\ last.op = "tick" => now >= state.tick * tick_duration
    /\ last.op = "sleep" => now < next_tick

C19_Witness ==
    /\ last.op = "tick"
    /\ state.tick = 1
    /\ now >= next_tick + tick_duration

\* every write of the latest tick failed
AllWritesFail == last.op = "tick" => last.failed = last.w
\* the game is still running after the last step that is explored
Unexplored == state.tick >= LiveTicks /\ ~state.game_over

\* C11: the main loop has ended exactly when no connection is left in the
\* writer set, whether the game is over or not; and if from some point on
\* every write of every tick fails, the loop ends (as far as the steps of a
\* running game are explored: a game that is over is stepped for ever).
C11_Termination ==
    /\ [](pc = "done" <=> writers = {})
    /\ (<>[]AllWritesFail) => <>(pc = "done" \/ Unexplored)

C11_Witness ==
    /\ pc = "done"
    /\ state.game_over
    /\ last.op = "tick" /\ last.over
    /\ last.w = {2} /\ last.failed = {2}
    /\ writers = {}

\* C21: in every reachable state, the initial one and every one that steps
\* and inputs lead to, the food is a cell of the grid and no cell of either
\* body, between two relocations as well as right after one.
C21_FoodFree ==
    /\ state.food \in Grid
    /\ state.food \notin Cells(state.p1.snake) \cup Cells(state.p2.snake)

C21_Witness ==
    /\ last.op = "tick" /\ ~last.over /\ ~state.game_over
    /\ state.score1 >= 1 /\ Len(state.p1.snake) >= 2
    /\ state.food = last.food
    /\ state.food \notin Cells(state.p1.snake) \cup Cells(state.p2.snake)

\* C22: in every reachable state the score of each player is the length of
\* its body minus one; there is a winner only when the game is over, and it
\* is player 1 or player 2.
C22_ScoreAndWinner ==
    /\ \A k \in Slots : ScoreOf(state, k) = Len(BodyOf(state, k)) - 1
    /\ state.winner \in {NoneOpt, Some(1), Some(2)}
    /\ state.winner # NoneOpt => state.game_over

C22_Witness ==
    /\ state.game_over /\ state.winner = Some(1)
    /\ state.score1 = 1 /\ Len(state.p1.snake) = 2
    /\ state.score2 = 0 /\ Len(state.p2.snake) = 1

====
